---------------------------- MODULE Spec2Model ----------------------------
(***************************************************************************)
(* A model of AudioSeg.py: the timestamp formatter GetTime, the generators *)
(* windows and rising_edges, and the segmentation routine split_audio.     *)
(*                                                                         *)
(* Numbers.  The program works on floats; the model keeps them exact:      *)
(*   - a duration in seconds is an integer number of milliseconds          *)
(*     (0.6 s is 600, 0.03/10 s is 3);                                     *)
(*   - the silence threshold is held as its reciprocal (1e-4 is 10000);    *)
(*   - an energy is a fraction [num, den];                                 *)
(*   - int(x) of a non-negative x is the floor, taken with \div.           *)
(* The inputs of the model are sample rates and window indices at which    *)
(* IEEE double arithmetic gives the same integers as the exact arithmetic. *)
(***************************************************************************)
EXTENDS Integers, Sequences, FiniteSets, TLC

VARIABLES
    \* ---- split_audio: one call ----
    pc,                  \* position in split_audio
    call_args,           \* the three analysis arguments as the caller passed them
    min_silence_length,  \* local of split_audio [ms]
    silence_threshold,   \* local of split_audio [reciprocal]
    step_duration,       \* local of split_audio [ms, or None]
    output_dir,          \* the module global split_audio reads: "unbound" or "bound"
    sample_rate,         \* wavfile.read(...)[0]
    samples,             \* wavfile.read(...)[1]
    window_size,
    step_size,
    edges,               \* the window indices rising_edges yielded
    cut_samples,
    cut_ranges,
    video_sub,           \* the manifest
    written,             \* the wavfile.write calls made, in order
    err,                 \* the exception that ended the call, or "none"
    \* ---- windows(): one generator object ----
    gen,
    yielded,
    \* ---- rising_edges(): one generator object ----
    binary_signal,
    redge,
    edge_out,
    \* ---- GetTime(): one call ----
    video_seconds,
    instant

saVars   == <<pc, call_args, min_silence_length, silence_threshold, step_duration,
              output_dir, sample_rate, samples, window_size, step_size, edges,
              cut_samples, cut_ranges, video_sub, written, err>>
winVars  == <<gen, yielded>>
edgeVars == <<binary_signal, redge, edge_out>>
timeVars == <<video_seconds, instant>>
vars     == <<saVars, winVars, edgeVars, timeVars>>

None == "None"

(***************************************************************************)
(* Python built-ins the program uses.                                      *)
(***************************************************************************)

Digits == <<"0", "1", "2", "3", "4", "5", "6", "7", "8", "9">>

RECURSIVE PyStr(_)
\* str(n) of a non-negative int, as a sequence of characters
PyStr(n) == IF n < 10 THEN <<Digits[n + 1]>>
            ELSE PyStr(n \div 10) \o <<Digits[(n % 10) + 1]>>

RECURSIVE ZFill(_, _)
\* s.zfill(width)
ZFill(s, width) == IF Len(s) >= width THEN s ELSE ZFill(<<"0">> \o s, width)

\* slice.indices: the bounds [lo, hi) that s[start:stop] reads of a sequence of
\* length n (0-based, hi >= lo)
PySliceBounds(n, start, stop) ==
    LET norm(i) == IF i < 0 THEN (IF i + n < 0 THEN 0 ELSE i + n)
                   ELSE (IF i > n THEN n ELSE i)
        lo == norm(start)
        hi == norm(stop)
    IN  [lo |-> lo, hi |-> IF hi < lo THEN lo ELSE hi]

\* s[start:stop]
PySlice(s, start, stop) ==
    LET b == PySliceBounds(Len(s), start, stop)
    IN  SubSeq(s, b.lo + 1, b.hi)

(***************************************************************************)
(* GetTime (lines 54-66).  video_seconds is the fraction num/den, den > 0. *)
(* datetime(1,1,1) + timedelta(seconds) has hour, minute and second taken  *)
(* from the whole seconds elapsed.                                         *)
(***************************************************************************)

IntResult(n)  == [type |-> "int", num |-> n, text |-> <<>>]
StrResult(s)  == [type |-> "str", num |-> 0, text |-> s]

\* the fields joined as GetTotalTime (lines 69-75) joins them, without zfill
InstantNoPad(hour, minute, second) ==
    PyStr(hour) \o <<":">> \o PyStr(minute) \o <<":">> \o PyStr(second)
        \o <<".", "0", "0", "1">>

\* lines 63-64
Instant(hour, minute, second) ==
    ZFill(PyStr(hour), 2) \o <<":">> \o ZFill(PyStr(minute), 2) \o <<":">>
        \o ZFill(PyStr(second), 2) \o <<".", "0", "0", "1">>

GetTime(num, den) ==
    IF num < 0
    THEN IntResult(0)
    ELSE LET secs   == num \div den
             hour   == (secs \div 3600) % 24
             minute == (secs \div 60) % 60
             second == secs % 60
         IN  StrResult(Instant(hour, minute, second))

\* str(GetTime(...)) as the manifest stores it
StrOfResult(r) == IF r.type = "int" THEN PyStr(r.num) ELSE r.text

(***************************************************************************)
(* windows (lines 78-87), a generator.  A generator object is a record:    *)
(* its arguments, where it is suspended, and its loop variable.  An        *)
(* argument is a value with its Python type.                               *)
(***************************************************************************)

PyInt(n)   == [type |-> "int", val |-> n]
PyFloat(n) == [type |-> "float", val |-> n]
PyNone     == [type |-> "NoneType", val |-> 0]

\* windows(signal, window_size, step_size): the call only creates the generator
NewWindows(signal, wsize, ssize) ==
    [state |-> "created", signal |-> signal, window_size |-> wsize,
     step_size |-> ssize, i_start |-> 0, err |-> "none"]

NoWindow == [has |-> FALSE, i_start |-> 0, i_end |-> 0, window |-> <<>>]

\* i in range(0, n, step), step # 0
InRange(i, n, step) == IF step > 0 THEN i < n ELSE i > n

\* the test that would let a window end at the last sample
WindowEndsLate(i_end, n) == i_end > n

\* line 85: if i_end >= len(signal): break
WindowEnds(i_end, n) == i_end >= n

\* lines 83-87 with the loop variable at i
WindowsLoop(g, i) ==
    LET n     == Len(g.signal)
        i_end == i + g.window_size.val
    IN  IF ~InRange(i, n, g.step_size.val) \/ WindowEnds(i_end, n)
        THEN [gen |-> [g EXCEPT !.state = "finished", !.i_start = i], out |-> NoWindow]
        ELSE [gen |-> [g EXCEPT !.state = "suspended", !.i_start = i],
              out |-> [has |-> TRUE, i_start |-> i, i_end |-> i_end,
                       window |-> PySlice(g.signal, i, i_end)]]

\* next(g): run the generator to its next yield, its end or its exception
WindowsResume(g) ==
    CASE g.state = "created" ->
            IF g.window_size.type # "int"
            THEN [gen |-> [g EXCEPT !.state = "raised", !.err = "AttributeError"],
                  out |-> NoWindow]
            ELSE IF g.step_size.type # "int"
            THEN [gen |-> [g EXCEPT !.state = "raised", !.err = "AttributeError"],
                  out |-> NoWindow]
            ELSE IF g.step_size.val = 0
            THEN \* range() arg 3 must not be zero
                 [gen |-> [g EXCEPT !.state = "raised", !.err = "ValueError"],
                  out |-> NoWindow]
            ELSE WindowsLoop(g, 0)
      [] g.state = "suspended" -> WindowsLoop(g, g.i_start + g.step_size.val)
      [] OTHER -> [gen |-> g, out |-> NoWindow]

RECURSIVE WindowsDrain(_, _)
\* every window the generator yields from g on, and the generator it ends as
WindowsDrain(g, acc) ==
    LET r == WindowsResume(g)
    IN  IF r.out.has
        THEN WindowsDrain(r.gen, Append(acc, r.out.window))
        ELSE [gen |-> r.gen, windows |-> acc]

(***************************************************************************)
(* energy (lines 90-91): sum of squares over the count, kept as a fraction *)
(***************************************************************************)

RECURSIVE SumSq(_, _, _)
\* the sum of the squares of s[lo..hi], added pairwise
SumSq(s, lo, hi) ==
    IF lo > hi THEN 0
    ELSE IF lo = hi THEN s[lo] * s[lo]
    ELSE LET mid == (lo + hi) \div 2
         IN  SumSq(s, lo, mid) + SumSq(s, mid + 1, hi)

energy(s) == [num |-> SumSq(s, 1, Len(s)), den |-> Len(s)]

(***************************************************************************)
(* rising_edges (lines 94-101), a generator over binary_signal.            *)
(***************************************************************************)

\* lines 95-96
NewRisingEdges == [previous_value |-> FALSE, index |-> 0]

\* an iteration that yields on every change of value, falling edges too
RisingEdgesStepAnyChange(r, x) ==
    [redge |-> [previous_value |-> x, index |-> r.index + 1],
     has   |-> x # r.previous_value,
     index |-> r.index]

\* lines 98-101: one iteration of the loop, on element x
RisingEdgesStep(r, x) ==
    [redge |-> [previous_value |-> x, index |-> r.index + 1],
     has   |-> x /\ ~r.previous_value,
     index |-> r.index]

RECURSIVE RisingEdgesDrain(_, _, _, _)
\* every index the generator yields over flags[k..]
RisingEdgesDrain(flags, k, r, acc) ==
    IF k > Len(flags) THEN acc
    ELSE LET s == RisingEdgesStep(r, flags[k])
         IN  RisingEdgesDrain(flags, k + 1, s.redge,
                              IF s.has THEN Append(acc, s.index) ELSE acc)

(***************************************************************************)
(* The parts of the state a specification does not use stay as they are.   *)
(***************************************************************************)

Pending == [type |-> "pending", num |-> 0, text |-> <<>>]

IdleSplit ==
    /\ pc = "idle" /\ call_args = None /\ min_silence_length = None
    /\ silence_threshold = None /\ step_duration = PyNone /\ output_dir = "unbound"
    /\ sample_rate = 0 /\ samples = <<>> /\ window_size = 0 /\ step_size = 0
    /\ edges = <<>> /\ cut_samples = <<>> /\ cut_ranges = <<>> /\ video_sub = <<>>
    /\ written = <<>> /\ err = "none"

IdleWindows == gen = [state |-> "idle"] /\ yielded = <<>>

IdleEdges == binary_signal = <<>> /\ redge = NewRisingEdges /\ edge_out = <<>>

IdleTime == video_seconds = 0 /\ instant = Pending

(***************************************************************************)
(* SpecTime: GetTime called on one time offset, given in milliseconds.     *)
(***************************************************************************)

Hours   == {0, 1, 9, 10, 23}
Minutes == {0, 1, 9, 10, 59}
Seconds == {0, 1, 59}
Millis  == {0, 1, 999}

TimeInputs ==
    { ((h * 60 + m) * 60 + sec) * 1000 + ms :
        h \in Hours, m \in Minutes, sec \in Seconds, ms \in Millis }
    \cup {-1, -1000, -3661000}

InitTime ==
    /\ IdleSplit /\ IdleWindows /\ IdleEdges
    /\ video_seconds \in TimeInputs
    /\ instant = Pending

CallGetTime ==
    /\ instant = Pending
    /\ instant' = GetTime(video_seconds, 1000)
    /\ UNCHANGED <<video_seconds, saVars, winVars, edgeVars>>

NextTime == CallGetTime

SpecTime == InitTime /\ [][NextTime]_vars

(***************************************************************************)
(* SpecWindows: one windows() generator, advanced one next() at a time.    *)
(* The signal holds its own indices, so a window shows which samples it    *)
(* took.                                                                   *)
(***************************************************************************)

MaxLen  == 6
MaxSize == 3

IndexSignal(n) == [i \in 1..n |-> i - 1]

SizeArgs == {PyInt(v) : v \in (0 - MaxSize)..MaxSize} \cup {PyFloat(0), PyFloat(2)}

InitWindows ==
    /\ IdleSplit /\ IdleEdges /\ IdleTime
    /\ \E n \in 0..MaxLen, wsize \in SizeArgs, ssize \in SizeArgs :
           gen = NewWindows(IndexSignal(n), wsize, ssize)
    /\ yielded = <<>>

NextWindow ==
    /\ gen.state \in {"created", "suspended"}
    /\ LET r == WindowsResume(gen)
       IN  /\ gen' = r.gen
           /\ yielded' = IF r.out.has THEN Append(yielded, r.out) ELSE yielded
    /\ UNCHANGED <<saVars, edgeVars, timeVars>>

NextWindows == NextWindow

SpecWindows == InitWindows /\ [][NextWindows]_vars

(***************************************************************************)
(* SpecEdges: one rising_edges() generator over a sequence of flags,       *)
(* advanced one element at a time.                                         *)
(***************************************************************************)

MaxFlags == 5

FlagSeqs == UNION { [1..n -> BOOLEAN] : n \in 0..MaxFlags }

InitEdges ==
    /\ IdleSplit /\ IdleWindows /\ IdleTime
    /\ binary_signal \in FlagSeqs
    /\ redge = NewRisingEdges
    /\ edge_out = <<>>

NextEdge ==
    /\ redge.index < Len(binary_signal)
    /\ LET s == RisingEdgesStep(redge, binary_signal[redge.index + 1])
       IN  /\ redge' = s.redge
           /\ edge_out' = IF s.has THEN Append(edge_out, s.index) ELSE edge_out
    /\ UNCHANGED <<binary_signal, saVars, winVars, timeVars>>

NextEdges == NextEdge

SpecEdges == InitEdges /\ [][NextEdges]_vars

(***************************************************************************)
(* Properties of GetTime, checked under SpecTime.                          *)
(***************************************************************************)

IsDigit(c)  == \E d \in 0..9 : Digits[d + 1] = c
DigitVal(c) == CHOOSE d \in 0..9 : Digits[d + 1] = c
\* the number written by the two characters of text at i and i + 1
Field2(text, i) == DigitVal(text[i]) * 10 + DigitVal(text[i + 1])

\* C7: GetTime(t) is the number 0 (not a string) for every negative t; for every
\* non-negative t below one day it is a string of shape HH:MM:SS.mmm whose first
\* three fields are the two-digit hour, minute and second of t.  GetTime(-1.0) is
\* 0 and GetTime(3661.0) is "01:01:01.001".
C7_GetTimeShape ==
    instant # Pending =>
        /\ video_seconds < 0 => instant = IntResult(0)
        /\ video_seconds >= 0 =>
              /\ instant.type = "str"
              /\ Len(instant.text) = 12
              /\ instant.text[3] = ":" /\ instant.text[6] = ":" /\ instant.text[9] = "."
              /\ \A i \in {1, 2, 4, 5, 7, 8, 10, 11, 12} : IsDigit(instant.text[i])
              /\ Field2(instant.text, 1) = video_seconds \div 3600000
              /\ Field2(instant.text, 4) = (video_seconds \div 60000) % 60
              /\ Field2(instant.text, 7) = (video_seconds \div 1000) % 60
        /\ video_seconds = 3661000 =>
              instant.text = <<"0", "1", ":", "0", "1", ":", "0", "1", ".", "0", "0", "1">>

\* GetTime(3661.0) has returned
C7_Witness == video_seconds = 3661000 /\ instant.type = "str"

(***************************************************************************)
(* Properties of windows, checked under SpecWindows.                       *)
(***************************************************************************)

SignalLen == Len(gen.signal)

PositiveInt(a) == a.type = "int" /\ a.val > 0

ValidSizes == PositiveInt(gen.window_size) /\ PositiveInt(gen.step_size)

\* C2: with window_size > 0 and step_size > 0 the i-th window yielded (i = 0, 1,
\* ...) is exactly the slice [i*step_size, i*step_size + window_size), every
\* yielded window ends before N, and the generator stops, yielding nothing more,
\* at the first i whose end index would be >= N.
C2_WindowsExact ==
    ValidSizes =>
        /\ gen.state # "raised"
        /\ \A j \in 1..Len(yielded) :
              LET y == yielded[j]
                  a == (j - 1) * gen.step_size.val
                  b == a + gen.window_size.val
              IN  /\ y.i_start = a /\ y.i_end = b
                  /\ b < SignalLen
                  /\ y.window = [k \in 1..gen.window_size.val |-> a + k - 1]
        /\ gen.state = "finished" =>
              Len(yielded) * gen.step_size.val + gen.window_size.val >= SignalLen

\* the generator has yielded two windows and ended by dropping a partial window
C2_Witness ==
    /\ ValidSizes /\ gen.state = "finished" /\ Len(yielded) >= 2
    /\ Len(yielded) * gen.step_size.val < SignalLen
    /\ Len(yielded) * gen.step_size.val + gen.window_size.val > SignalLen

\* C6: windows() fails with an invalid-argument error, yielding no window,
\* whenever window_size or step_size is not a positive integer (a non-integer,
\* zero or a negative integer), at the point window generation is requested.
C6_InvalidSizesRaise ==
    (~ValidSizes /\ gen.state # "created") =>
        (gen.state = "raised" /\ yielded = <<>>)

(***************************************************************************)
(* Properties of rising_edges, checked under SpecEdges.                    *)
(***************************************************************************)

\* window k (0-based) is non-silent and window k-1 was silent, or k = 0
IsRisingAt(k) ==
    /\ binary_signal[k + 1]
    /\ (k = 0 \/ ~binary_signal[k])

\* C3: rising_edges yields index k exactly when flag k is true and flag k-1 was
\* false (or k = 0): a sequence starting true yields 0, the yielded indices are
\* strictly increasing, never two consecutive, and none is a falling edge.
C3_RisingEdgesExact ==
    /\ \A k \in 0..(redge.index - 1) :
          IsRisingAt(k) <=> (\E j \in 1..Len(edge_out) : edge_out[j] = k)
    /\ \A j \in 1..Len(edge_out) : edge_out[j] \in 0..(redge.index - 1)
    /\ \A j \in 1..(Len(edge_out) - 1) : edge_out[j + 1] > edge_out[j] + 1
    /\ \A j \in 1..Len(edge_out) :
          ~(~binary_signal[edge_out[j] + 1] /\ edge_out[j] > 0
              /\ binary_signal[edge_out[j]])
    /\ (redge.index > 0 /\ binary_signal[1]) => (edge_out # <<>> /\ edge_out[1] = 0)

\* a whole sequence that starts non-silent, falls silent and rises again
C3_Witness ==
    /\ redge.index = Len(binary_signal)
    /\ Len(edge_out) >= 2 /\ edge_out[1] = 0

(***************************************************************************)
(* split_audio (lines 104-196).                                            *)
(***************************************************************************)

\* int(duration * sample_rate), the duration in milliseconds
IntOfDuration(ms, sr) == (ms * sr) \div 1000

\* the three parameters used as the caller passed them
ConfigAsPassed(args) == args

\* lines 115-119: the three parameters are assigned over
Config(args) ==
    [min_silence_length |-> 600, silence_threshold |-> 10000,
     step_duration |-> PyFloat(3)]

\* line 144: np.iinfo(samples.dtype).max, the samples being 8-bit PCM (uint8)
max_amplitude == 255

\* line 147
max_energy == energy(<<max_amplitude>>)

\* lines 159 and 164: energy(w) / max_energy > silence_threshold.  With the
\* threshold 1/thr this is e.num * m.den * thr > e.den * m.num, and the left
\* side being whole, e.num * m.den > floor(e.den * m.num / thr).
NonSilent(w, thr) ==
    LET e == energy(w)
    IN  e.num * max_energy.den > (e.den * max_energy.num) \div thr

\* line 164: window_silence, one flag per window (true: above the threshold)
WindowFlags(windowSeq, thr) ==
    [k \in 1..Len(windowSeq) |-> NonSilent(windowSeq[k], thr)]

\* lines 166 and 170: int((r * step_duration) * sample_rate)
CutSample(r, sd, sr) == (r * sd * sr) \div 1000

\* the cut list left without its closing boundary
NoSentinel(cuts) == cuts

\* line 171: cut_samples.append(-1)
AppendSentinel(cuts) == Append(cuts, -1)

\* lines 173-174
CutRanges(cuts) ==
    [i \in 1..(Len(cuts) - 1) |-> <<i - 1, cuts[i], cuts[i + 1]>>]

\* lines 176-178: str(i) -> [str(GetTime(start / rate)), str(GetTime(stop / rate))]
VideoSub(cuts, sr) ==
    [i \in 1..(Len(cuts) - 1) |->
        [key   |-> PyStr(i - 1),
         value |-> <<StrOfResult(GetTime(cuts[i], sr)),
                     StrOfResult(GetTime(cuts[i + 1], sr))>>]]

(***************************************************************************)
(* The inputs of a call: the arguments, and the file wavfile.read returns. *)
(* A buffer is a little longer than one analysis window, and differs from  *)
(* a constant one in a few samples near its two ends, which is where a     *)
(* sample decides whether a window holds it.                               *)
(***************************************************************************)

MaxExtra == 4
MaxLoud  == 2

CallArgs ==
    { [min_silence_length |-> 600,  silence_threshold |-> 10000,
       step_duration |-> PyFloat(3)],
      [min_silence_length |-> 300,  silence_threshold |-> 1000,
       step_duration |-> PyFloat(10)],
      [min_silence_length |-> 1000, silence_threshold |-> 10000,
       step_duration |-> PyNone] }

SampleRates == {300, 334, 500}

\* <<the amplitude of most samples, the amplitude of the marked ones>>
AmpPairs == { <<0, 255>>, <<255, 0>>, <<0, 3>> }

\* the length of the analysis window at the documented 0.6 s
NominalWindow(sr) == IntOfDuration(600, sr)

BufferLens(sr) == { NominalWindow(sr) + x : x \in 1..MaxExtra }

Marked(n, sr) ==
    { p \in (0..(MaxExtra - 1))
              \cup (NominalWindow(sr)..(NominalWindow(sr) + MaxExtra - 1)) : p < n }

MarkedSets(n, sr) == { L \in SUBSET Marked(n, sr) : Cardinality(L) <= MaxLoud }

Buffer(n, L, a) == [i \in 1..n |-> IF (i - 1) \in L THEN a[2] ELSE a[1]]

\* split_audio is entered with its arguments bound.  output_dir is a name the
\* function reads and never binds (lines 182, 195): whether the module has a
\* global of that name is up to whoever imported it.
Init ==
    /\ IdleWindows /\ IdleEdges /\ IdleTime
    /\ pc = "start"
    /\ call_args \in CallArgs
    /\ min_silence_length = call_args.min_silence_length
    /\ silence_threshold = call_args.silence_threshold
    /\ step_duration = call_args.step_duration
    /\ output_dir \in {"unbound", "bound"}
    /\ sample_rate = 0 /\ samples = <<>> /\ window_size = 0 /\ step_size = 0
    /\ edges = <<>> /\ cut_samples = <<>> /\ cut_ranges = <<>> /\ video_sub = <<>>
    /\ written = <<>> /\ err = "none"

\* lines 115-126
AssignConfig ==
    /\ pc = "start"
    /\ LET c == Config(call_args)
       IN  /\ min_silence_length' = c.min_silence_length
           /\ silence_threshold' = c.silence_threshold
           /\ step_duration' = IF c.step_duration = PyNone
                               THEN PyFloat(c.min_silence_length \div 10)
                               ELSE c.step_duration
    /\ pc' = "read"
    /\ UNCHANGED <<call_args, output_dir, sample_rate, samples, window_size,
                   step_size, edges, cut_samples, cut_ranges, video_sub, written, err,
                   winVars, edgeVars, timeVars>>

\* lines 141-148
ReadFile ==
    /\ pc = "read"
    /\ \E sr \in SampleRates :
         \E n \in BufferLens(sr) :
           \E L \in MarkedSets(n, sr), a \in AmpPairs :
               /\ sample_rate' = sr
               /\ samples' = Buffer(n, L, a)
    /\ pc' = "sizes"
    /\ UNCHANGED <<call_args, min_silence_length, silence_threshold, step_duration,
                   output_dir, window_size, step_size, edges, cut_samples, cut_ranges,
                   video_sub, written, err, winVars, edgeVars, timeVars>>

\* lines 150-162.  The generators are created and none runs; tqdm's total,
\* int(len(samples) / float(step_size)), is computed here.
BuildPipeline ==
    /\ pc = "sizes"
    /\ window_size' = IntOfDuration(min_silence_length, sample_rate)
    /\ step_size' = IntOfDuration(step_duration.val, sample_rate)
    /\ IF step_size' = 0
       THEN pc' = "error" /\ err' = "ZeroDivisionError"
       ELSE pc' = "find" /\ err' = err
    /\ UNCHANGED <<call_args, min_silence_length, silence_threshold, step_duration,
                   output_dir, sample_rate, samples, edges, cut_samples, cut_ranges,
                   video_sub, written, winVars, edgeVars, timeVars>>

\* lines 164-171: the list comprehension runs the chain of generators dry
FindSilences ==
    /\ pc = "find"
    /\ LET w == WindowsDrain(NewWindows(samples, PyInt(window_size), PyInt(step_size)),
                             <<>>)
           r == RisingEdgesDrain(WindowFlags(w.windows, silence_threshold), 1,
                                 NewRisingEdges, <<>>)
       IN  IF w.gen.state = "raised"
           THEN /\ pc' = "error" /\ err' = w.gen.err
                /\ UNCHANGED <<edges, cut_samples>>
           ELSE /\ edges' = r
                /\ cut_samples' = AppendSentinel(
                      [j \in 1..Len(edges') |->
                          CutSample(edges'[j], step_duration.val, sample_rate)])
                /\ pc' = "ranges" /\ err' = err
    /\ UNCHANGED <<call_args, min_silence_length, silence_threshold, step_duration,
                   output_dir, sample_rate, samples, window_size, step_size, cut_ranges,
                   video_sub, written, winVars, edgeVars, timeVars>>

\* lines 173-178
BuildRanges ==
    /\ pc = "ranges"
    /\ cut_ranges' = CutRanges(cut_samples)
    /\ video_sub' = VideoSub(cut_samples, sample_rate)
    /\ pc' = "write"
    /\ UNCHANGED <<call_args, min_silence_length, silence_threshold, step_duration,
                   output_dir, sample_rate, samples, window_size, step_size, edges,
                   cut_samples, written, err, winVars, edgeVars, timeVars>>

\* lines 180-193, one iteration: output_dir is no parameter and no local of
\* split_audio, so line 182 reads the module global of that name
WriteSegment ==
    /\ pc = "write"
    /\ Len(written) < Len(cut_ranges)
    /\ LET c     == cut_ranges[Len(written) + 1]
           start == c[2]
           stop  == c[3]
           b     == PySliceBounds(Len(samples), start, stop)
       IN  IF output_dir = "unbound"
           THEN pc' = "error" /\ err' = "NameError" /\ written' = written
           ELSE /\ written' = Append(written,
                        [i |-> c[1], rate |-> sample_rate, lo |-> b.lo, hi |-> b.hi,
                         data |-> PySlice(samples, start, stop)])
                /\ pc' = pc /\ err' = err
    /\ UNCHANGED <<call_args, min_silence_length, silence_threshold, step_duration,
                   output_dir, sample_rate, samples, window_size, step_size, edges,
                   cut_samples, cut_ranges, video_sub, winVars, edgeVars, timeVars>>

\* lines 195-196
WriteManifest ==
    /\ pc = "write"
    /\ Len(written) = Len(cut_ranges)
    /\ IF output_dir = "unbound"
       THEN pc' = "error" /\ err' = "NameError"
       ELSE pc' = "done" /\ err' = err
    /\ UNCHANGED <<call_args, min_silence_length, silence_threshold, step_duration,
                   output_dir, sample_rate, samples, window_size, step_size, edges,
                   cut_samples, cut_ranges, video_sub, written, winVars, edgeVars,
                   timeVars>>

Next ==
    \/ AssignConfig
    \/ ReadFile
    \/ BuildPipeline
    \/ FindSilences
    \/ BuildRanges
    \/ WriteSegment
    \/ WriteManifest

Spec == Init /\ [][Next]_vars

(***************************************************************************)
(* Properties of split_audio, checked under Spec.                          *)
(***************************************************************************)

N == Len(samples)

\* the cut list, the segments and the manifest have been built (line 178 passed)
RangesBuilt == pc \in {"write", "done"} \/ (pc = "error" /\ err = "NameError")

ValidConfig == window_size > 0 /\ step_size > 0

\* the flags of the windows of the buffer read, as line 164 computes them
FlagsNow ==
    WindowFlags(WindowsDrain(NewWindows(samples, PyInt(window_size), PyInt(step_size)),
                             <<>>).windows,
                silence_threshold)

\* the sample range of a segment, the sentinel -1 read as the end of the buffer
SegLo(c) == c[2]
SegHi(c) == IF c[3] = -1 THEN N ELSE c[3]

\* C1: for a valid configuration the segment ranges of cut_ranges (the sentinel
\* read as the end of the buffer) are sorted by strictly increasing start, are
\* pairwise disjoint and cover every sample index in [0, N) exactly once.
C1_SegmentsPartitionBuffer ==
    (RangesBuilt /\ ValidConfig) =>
        /\ \A i, j \in 1..Len(cut_ranges) :
              i < j => /\ SegLo(cut_ranges[i]) < SegLo(cut_ranges[j])
                       /\ SegHi(cut_ranges[i]) <= SegLo(cut_ranges[j])
        /\ \A q \in 0..(N - 1) :
              Cardinality({ i \in 1..Len(cut_ranges) :
                              SegLo(cut_ranges[i]) <= q /\ q < SegHi(cut_ranges[i]) }) = 1

\* C4: the cut list is the cut points in order followed by -1; there are
\* len(cut) - 1 segments, segment i being (cut[i], cut[i+1]); the manifest has as
\* many entries, keyed "0" .. str(len(cut)-2).  An entirely silent buffer gives
\* the cut list [-1], no segment written and an empty manifest.
C4_SegmentsFromCutList ==
    RangesBuilt =>
        /\ Len(cut_samples) = Len(edges) + 1
        /\ cut_samples[Len(cut_samples)] = -1
        /\ \A j \in 1..Len(edges) : cut_samples[j] >= 0
        /\ \A j \in 1..(Len(edges) - 1) : cut_samples[j] <= cut_samples[j + 1]
        /\ Len(cut_ranges) = Len(cut_samples) - 1
        /\ \A i \in 0..(Len(cut_ranges) - 1) :
              cut_ranges[i + 1] = <<i, cut_samples[i + 1], cut_samples[i + 2]>>
        /\ Len(video_sub) = Len(cut_ranges)
        /\ \A i \in 0..(Len(video_sub) - 1) : video_sub[i + 1].key = <<Digits[i + 1]>>
        /\ Len(written) <= Len(cut_ranges)
        /\ pc = "done" => Len(written) = Len(cut_ranges)
        /\ (\A k \in 1..N : samples[k] = 0) =>
              /\ edges = <<>> /\ cut_samples = <<-1>>
              /\ cut_ranges = <<>> /\ video_sub = <<>> /\ written = <<>>

\* a call that ended having cut the buffer in two segments and written both
C4_Witness == pc = "done" /\ Len(cut_samples) = 3 /\ Len(written) = 2

\* C5: the data written for a segment is samples[start:end] with the sentinel
\* end resolved to the buffer length N: the final segment is written with every
\* sample from its start through index N-1.
C5_WrittenSliceToEnd ==
    \A j \in 1..Len(written) :
        /\ written[j].data = SubSeq(samples, SegLo(cut_ranges[j]) + 1,
                                    SegHi(cut_ranges[j]))
        /\ cut_ranges[j][3] = -1 => written[j].hi = N

\* C8: a degenerate signal raises no error and yields exactly one segment: all
\* windows silent gives zero cut points, all windows non-silent gives one, and in
\* both cases there is a single segment spanning the buffer.
C8_DegenerateOneSegment ==
    (/\ pc \in {"write", "done", "error"}
     /\ ValidConfig
     /\ FlagsNow # <<>>
     /\ \/ \A k \in 1..Len(FlagsNow) : ~FlagsNow[k]
        \/ \A k \in 1..Len(FlagsNow) : FlagsNow[k])
    => /\ pc # "error" /\ err = "none"
       /\ Len(edges) = (IF FlagsNow[1] THEN 1 ELSE 0)
       /\ Len(cut_ranges) = 1

C10_CutAtWindowStart ==
    (pc = "ranges" \/ RangesBuilt) =>
        \A j \in 1..Len(edges) : cut_samples[j] = edges[j] * step_size

=============================================================================
